---- MODULE Spec2Model ----
(***************************************************************************)
(* Model of serverless-s3-local (src/index.js): the ServerlessS3Local      *)
(* plugin.  JavaScript objects are functions from property names to        *)
(* values (a missing property is a name outside DOMAIN); objects whose     *)
(* iteration order matters (Resources) are sequences of key/value pairs in *)
(* Object.keys order.                                                      *)
(***************************************************************************)
EXTENDS Integers, Sequences, FiniteSets, TLC

\* ---------------------------------------------------------------- bounds
\* number of lifecycle hook invocations in one process
MaxHooks == 3
\* number of entries of the primary template's resource mapping
MaxResources == 3
\* number of secondary stacks
MaxStacks == 2
\* length of an explicit bucket list
MaxBuckets == 2

\* ------------------------------------------------------------- constants
DefaultPort == 4569
DefaultHost == "localhost"
DefaultDirectory == "./buckets"
BucketType == "AWS::S3::Bucket"
AdditionalStacksPlugin == "serverless-plugin-additional-stacks"

\* ------------------------------------------------------- JavaScript values
\* the empty object {}
EmptyObject == [k \in {} |-> TRUE]

\* a property holding null / undefined where an object is expected
Null == [null |-> TRUE]

\* Object.assign({}, a, b): own properties of a, then those of b over them
ObjectAssign(a, b) ==
    [k \in (DOMAIN a) \cup (DOMAIN b) |-> IF k \in DOMAIN b THEN b[k] ELSE a[k]]

\* ordered mapping (an object iterated with Object.keys): sequence of
\* [key, val] with pairwise distinct keys, in insertion order
HasKey(m, k) == \E i \in 1..Len(m) : m[i].key = k

Lookup(m, k) == m[CHOOSE i \in 1..Len(m) : m[i].key = k].val

\* m[k] = v: an existing key keeps its position, a new key goes last
\* faulty variant: an existing key keeps its entry
PutKeepExisting(m, k, v) ==
    IF HasKey(m, k) THEN m ELSE Append(m, [key |-> k, val |-> v])

Put(m, k, v) ==
    IF HasKey(m, k)
    THEN [i \in 1..Len(m) |-> IF m[i].key = k THEN [key |-> k, val |-> v] ELSE m[i]]
    ELSE Append(m, [key |-> k, val |-> v])

\* ------------------------------------------------------ Bucket Resolver
\* this.service && this.service.plugins && plugins.indexOf(...) >= 0
hasAdditionalStacksPlugin(svc) ==
    /\ "plugins" \in DOMAIN svc
    /\ \E i \in 1..Len(svc.plugins) : svc.plugins[i] = AdditionalStacksPlugin

\* this.service.custom.additionalStacks || {} pushed in Object.keys order;
\* reading a property of the undefined custom block throws a TypeError
getAdditionalStacks(svc) ==
    IF "custom" \notin DOMAIN svc
    THEN [threw |-> TRUE, value |-> <<>>]
    ELSE IF "additionalStacks" \notin DOMAIN svc.custom
         THEN [threw |-> FALSE, value |-> <<>>]
         ELSE [threw |-> FALSE,
               value |-> [i \in 1..Len(svc.custom.additionalStacks) |->
                              svc.custom.additionalStacks[i].val]]

\* entry.Type === 'AWS::S3::Bucket'
IsBucketEntry(e) == "Type" \in DOMAIN e /\ e.Type = BucketType

\* a BucketName that is no string literal but an intrinsic-function object
\* ({Ref: ...}, {'Fn::Sub': ...}); like every object it is truthy
IntrinsicName == "{Ref}"

\* faulty variant: the Type test is left out
IsNamedBucketIgnoringType(e) ==
    /\ "Properties" \in DOMAIN e
    /\ "BucketName" \in DOMAIN e.Properties
    /\ e.Properties.BucketName # ""

\* Type is bucket && Properties && Properties.BucketName (truthy)
IsNamedBucket(e) ==
    /\ IsBucketEntry(e)
    /\ "Properties" \in DOMAIN e
    /\ "BucketName" \in DOMAIN e.Properties
    /\ e.Properties.BucketName # ""

\* Object.keys(stack.Resources).forEach: bucket-type entries are written
\* into resources under their key; a null entry throws on .Type
RECURSIVE MergeStackResources(_, _, _)
MergeStackResources(acc, stackRes, i) ==
    IF acc.threw \/ i > Len(stackRes)
    THEN acc
    ELSE IF stackRes[i].val = Null
         THEN [acc EXCEPT !.threw = TRUE]
         ELSE MergeStackResources(
                  IF IsBucketEntry(stackRes[i].val)
                  THEN [acc EXCEPT !.resources =
                            Put(@, stackRes[i].key, stackRes[i].val)]
                  ELSE acc,
                  stackRes, i + 1)

\* additionalStacks.forEach: a null stack throws on .Resources, a stack
\* without Resources is skipped
RECURSIVE MergeStacks(_, _, _)
MergeStacks(acc, stacks, i) ==
    IF acc.threw \/ i > Len(stacks)
    THEN acc
    ELSE IF stacks[i] = Null
         THEN [acc EXCEPT !.threw = TRUE]
         ELSE MergeStacks(
                  IF "Resources" \in DOMAIN stacks[i]
                  THEN MergeStackResources(acc, stacks[i].Resources, 1)
                  ELSE acc,
                  stacks, i + 1)

\* Object.keys(resources).map(...).filter(n => n)
RECURSIVE NamesOf(_, _)
NamesOf(resources, i) ==
    IF i > Len(resources)
    THEN <<>>
    ELSE IF IsNamedBucket(resources[i].val)
         THEN <<resources[i].val.Properties.BucketName>> \o NamesOf(resources, i + 1)
         ELSE NamesOf(resources, i + 1)

\* the template's own mapping object when it exists, else a fresh {}
ResourcesAliased(svc) ==
    "resources" \in DOMAIN svc /\ "Resources" \in DOMAIN svc.resources

ResourcesOf(svc) ==
    IF ResourcesAliased(svc) THEN svc.resources.Resources ELSE <<>>

\* the resource mapping as buckets() leaves it before the final walk
MergedResources(svc) ==
    IF hasAdditionalStacksPlugin(svc)
    THEN IF getAdditionalStacks(svc).threw
         THEN [threw |-> TRUE, resources |-> ResourcesOf(svc)]
         ELSE MergeStacks([threw |-> FALSE, resources |-> ResourcesOf(svc)],
                          getAdditionalStacks(svc).value, 1)
    ELSE [threw |-> FALSE, resources |-> ResourcesOf(svc)]

\* buckets(): the returned list (or a throw) and the service object after
\* the call; resources[key] = ... writes through to the template's mapping
buckets(svc) ==
    LET merged == MergedResources(svc)
        threw  == merged.threw
                    \/ \E i \in 1..Len(merged.resources) :
                           merged.resources[i].val = Null
    IN [threw   |-> threw,
        value   |-> IF threw THEN <<>> ELSE NamesOf(merged.resources, 1),
        service |-> IF ResourcesAliased(svc)
                    THEN [svc EXCEPT !.resources.Resources = merged.resources]
                    ELSE svc]

\* ------------------------------------------------------------------ state
VARIABLES
    thisOptions,  \* this.options: the explicit run options
    service,      \* this.serverless.service: declarative configuration
    service0,     \* the service object as the framework supplied it
    client,       \* this.client: 0 is null, else an index into emulators
    emulators,    \* every S3rver instance constructed by this process
    pc,           \* position of the startHandler in flight
    start,        \* locals of the latest startHandler execution
    calls,        \* create-bucket calls issued by the latest createBuckets
    promise,      \* the promise returned by the latest startHandler
    firstRejected, \* index of the create-bucket call that rejected first, or 0
    lastEnd,      \* what the latest endHandler did
    hooks,        \* number of hook invocations so far
    lastHook,     \* "none", "start" or "end"
    returned      \* what the latest direct call of buckets() returned

vars == <<thisOptions, service, service0, client, emulators, pc, start, calls, promise,
          firstRejected, lastEnd, hooks, lastHook, returned>>

\* errors
TypeError == [kind |-> "TypeError", code |-> "", call |-> 0]
FsError == [kind |-> "fs", code |-> "", call |-> 0]
RunError(c) == [kind |-> "run", code |-> c, call |-> 0]
CreateError(i) == [kind |-> "createBucket", code |-> "", call |-> i]
NoError == [kind |-> "none", code |-> "", call |-> 0]

\* errors the emulator may hand to the run callback
RunErrorCodes == {"EADDRINUSE", "EACCES"}

Pending == [state |-> "pending", err |-> NoError]
Resolved == [state |-> "resolved", err |-> NoError]
Rejected(e) == [state |-> "rejected", err |-> e]

\* resolve / reject of a promise: only the first settlement takes effect
Settle(pr, outcome) == IF pr.state = "pending" THEN outcome ELSE pr

\* a JavaScript truthy test of a boolean property that may be missing
Truthy(o, k) == k \in DOMAIN o /\ o[k] = TRUE

NoStart == [options |-> EmptyObject, buckets |-> <<>>, port |-> 0,
            hostname |-> "", noStart |-> FALSE, emu |-> 0, s3Port |-> 0,
            runErr |-> NoError, bucketsThrew |-> FALSE]

NoEnd == [outcome |-> "none", closeCalls |-> 0, target |-> 0]

NotCalled == [called |-> FALSE, threw |-> FALSE, value |-> <<>>]

\* ----------------------------------------------------------- startHandler
\* (this.serverless.service.custom && this.serverless.service.custom.s3) || {}
ConfigOf(svc) ==
    IF "custom" \in DOMAIN svc /\ "s3" \in DOMAIN svc.custom
    THEN svc.custom.s3
    ELSE EmptyObject

\* Object.assign({}, this.options, config)
MergedOptions(opts, svc) == ObjectAssign(opts, ConfigOf(svc))

\* options.buckets || []
ExplicitBuckets(o) == IF "buckets" \in DOMAIN o THEN o.buckets ELSE <<>>

\* options.port || 4569
PortOf(o) == IF "port" \in DOMAIN o /\ o.port # 0 THEN o.port ELSE DefaultPort

\* options.host || 'localhost'
HostOf(o) == IF "host" \in DOMAIN o /\ o.host # "" THEN o.host ELSE DefaultHost

\* options.directory || './buckets'
DirectoryOf(o) ==
    IF "directory" \in DOMAIN o /\ o.directory # "" THEN o.directory ELSE DefaultDirectory

\* options.cors || false
CorsOf(o) == Truthy(o, "cors")

\* faulty variant: the explicit buckets come first
BucketListExplicitFirst(svc, o) == ExplicitBuckets(o) \o buckets(svc).value

\* this.buckets().concat(options.buckets || [])
BucketList(svc, o) == buckets(svc).value \o ExplicitBuckets(o)

\* ports the emulator's run callback may report for a requested port: the
\* requested one, or another one the emulator bound instead
BoundPorts(requested) == {requested, requested + 1}

NoHookInFlight == pc \in {"idle", "settled"}

\* a throw inside the promise executor rejects the promise
RejectSyncClearsClient(st, e) ==
    /\ start' = st
    /\ promise' = Rejected(e)
    /\ pc' = "settled"
    /\ client' = 0
    /\ UNCHANGED emulators

RejectSync(st, e) ==
    /\ start' = st
    /\ promise' = Rejected(e)
    /\ pc' = "settled"
    /\ UNCHANGED <<client, emulators>>

\* if (options.noStart) return this.createBuckets(port, buckets).then(...):
\* the body of createBuckets runs in a later tick
SkipEmulator(st) ==
    /\ start' = st
    /\ promise' = Pending
    /\ pc' = "createBuckets"
    /\ UNCHANGED <<client, emulators>>

\* faulty variant: createBuckets is called without waiting for the callback
RunEmulatorNoWait(st, o) ==
    /\ emulators' = Append(emulators,
           [port |-> st.port, hostname |-> st.hostname,
            directory |-> DirectoryOf(o), cors |-> CorsOf(o),
            state |-> "starting", boundPort |-> 0, closeCalls |-> 0])
    /\ client' = Len(emulators) + 1
    /\ start' = [st EXCEPT !.emu = Len(emulators) + 1]
    /\ promise' = Pending
    /\ pc' = "createBuckets"

\* this.client = new S3rver({...}).run(callback)
RunEmulator(st, o) ==
    /\ emulators' = Append(emulators,
           [port |-> st.port, hostname |-> st.hostname,
            directory |-> DirectoryOf(o), cors |-> CorsOf(o),
            state |-> "starting", boundPort |-> 0, closeCalls |-> 0])
    /\ client' = Len(emulators) + 1
    /\ start' = [st EXCEPT !.emu = Len(emulators) + 1]
    /\ promise' = Pending
    /\ pc' = "run"

\* the locals of the executor: options, buckets, port, hostname
Locals(opts, svc) ==
    LET o == MergedOptions(opts, svc)
    IN [options |-> o, buckets |-> BucketList(svc, o), port |-> PortOf(o),
        hostname |-> HostOf(o), noStart |-> Truthy(o, "noStart"), emu |-> 0,
        s3Port |-> 0, runErr |-> NoError, bucketsThrew |-> buckets(svc).threw]

\* the synchronous part of the promise executor of startHandler
StartHandler ==
    /\ NoHookInFlight
    /\ hooks < MaxHooks
    /\ hooks' = hooks + 1
    /\ lastHook' = "start"
    /\ lastEnd' = NoEnd
    /\ calls' = <<>>
    /\ firstRejected' = 0
    /\ service' = buckets(service).service
    /\ LET st == Locals(thisOptions, service)
       IN IF st.bucketsThrew
          THEN RejectSync(st, TypeError)
          ELSE IF st.noStart
          THEN SkipEmulator(st)
          ELSE \/ \* fs.ensureDirSync / fs.realpathSync throws
                  RejectSync(st, FsError)
               \/ RunEmulator(st, st.options)
    /\ UNCHANGED <<thisOptions, service0, returned>>

\* faulty variant: no return after reject(err)
RunCallbackNoReturn ==
    /\ pc = "run"
    /\ \/ \E c \in RunErrorCodes :
              /\ emulators' = [emulators EXCEPT ![start.emu].state = "failed"]
              /\ start' = [start EXCEPT !.runErr = RunError(c)]
              /\ promise' = Rejected(RunError(c))
              /\ pc' = "createBuckets"
       \/ \E p \in BoundPorts(start.port) :
              /\ emulators' = [emulators EXCEPT ![start.emu].state = "running",
                                                ![start.emu].boundPort = p]
              /\ start' = [start EXCEPT !.s3Port = p]
              /\ pc' = "createBuckets"
              /\ UNCHANGED promise
    /\ UNCHANGED <<thisOptions, service0, service, client, calls, firstRejected,
                   lastEnd, hooks, lastHook, returned>>

\* the callback handed to run(): (err, s3Host, s3Port)
RunCallback ==
    /\ pc = "run"
    /\ \/ \* if (err) { reject(err); return; }
          \E c \in RunErrorCodes :
              /\ emulators' = [emulators EXCEPT ![start.emu].state = "failed"]
              /\ start' = [start EXCEPT !.runErr = RunError(c)]
              /\ promise' = Rejected(RunError(c))
              /\ pc' = "settled"
       \/ \* this.createBuckets(s3Port, buckets).then(resolve, reject)
          \E p \in BoundPorts(start.port) :
              /\ emulators' = [emulators EXCEPT ![start.emu].state = "running",
                                                ![start.emu].boundPort = p]
              /\ start' = [start EXCEPT !.s3Port = p]
              /\ pc' = "createBuckets"
              /\ UNCHANGED promise
    /\ UNCHANGED <<thisOptions, service0, service, client, calls, firstRejected,
                   lastEnd, hooks, lastHook, returned>>

\* faulty variant: the callback's port is used in the noStart path too
CreatePortAlwaysBound(st) == st.s3Port

\* the port createBuckets is called with: the configured port in the
\* noStart path, the port reported by the run callback otherwise
CreatePort(st) == IF st.noStart THEN st.port ELSE st.s3Port

\* endpoint: new AWS.Endpoint(`http://localhost:${port}`)
Endpoint(port) == [hostname |-> "localhost", port |-> port]

\* faulty variant: with an empty list the promise is left pending
CreateBucketsEmptyNeverSettles ==
    /\ pc = "createBuckets"
    /\ IF Len(start.buckets) = 0
       THEN /\ pc' = "awaitAll"
            /\ UNCHANGED <<calls, promise>>
       ELSE /\ calls' = [i \in 1..Len(start.buckets) |->
                            [Bucket |-> start.buckets[i],
                             endpoint |-> Endpoint(CreatePort(start)),
                             status |-> "pending"]]
            /\ pc' = "awaitAll"
            /\ UNCHANGED promise
    /\ UNCHANGED <<thisOptions, service0, service, client, emulators, start, firstRejected,
                   lastEnd, hooks, lastHook, returned>>

\* the body of createBuckets, run from Promise.resolve().then(...)
CreateBuckets ==
    /\ pc = "createBuckets"
    /\ IF Len(start.buckets) = 0
       THEN \* if (!buckets.length) return;
            /\ promise' = Settle(promise, Resolved)
            /\ pc' = "settled"
            /\ UNCHANGED calls
       ELSE \* Promise.all(buckets.map(Bucket => s3Client.createBucket(...)))
            /\ calls' = [i \in 1..Len(start.buckets) |->
                            [Bucket |-> start.buckets[i],
                             endpoint |-> Endpoint(CreatePort(start)),
                             status |-> "pending"]]
            /\ pc' = "awaitAll"
            /\ UNCHANGED promise
    /\ UNCHANGED <<thisOptions, service0, service, client, emulators, start, firstRejected,
                   lastEnd, hooks, lastHook, returned>>

\* faulty variant: a later rejection replaces an earlier one
PromiseAllLastRejection(cs, pr, i, status) ==
    IF status = "rejected" THEN Rejected(CreateError(i))
    ELSE IF pr.state = "pending" /\ \A j \in 1..Len(cs) : j = i \/ cs[j].status = "resolved"
    THEN Resolved
    ELSE pr

\* Promise.all over the calls after call i settled with the given status
PromiseAll(cs, pr, i, status) ==
    IF pr.state # "pending" THEN pr
    ELSE IF status = "rejected" THEN Rejected(CreateError(i))
    ELSE IF \A j \in 1..Len(cs) : j = i \/ cs[j].status = "resolved"
    THEN Resolved
    ELSE pr

\* one create-bucket call settles; the reactions of Promise.all and of
\* .then(resolve, reject) run in the same turn
CreateBucketSettle(i, status) ==
    /\ pc \in {"awaitAll", "settled"}
    /\ i \in 1..Len(calls)
    /\ calls[i].status = "pending"
    /\ calls' = [calls EXCEPT ![i].status = status]
    /\ firstRejected' = IF status = "rejected" /\ firstRejected = 0 THEN i
                        ELSE firstRejected
    /\ promise' = PromiseAll(calls, promise, i, status)
    /\ pc' = IF promise'.state = "pending" THEN pc ELSE "settled"
    /\ UNCHANGED <<thisOptions, service0, service, client, emulators, start, lastEnd,
                   hooks, lastHook, returned>>

\* ------------------------------------------------------------- endHandler
EndHandler ==
    /\ NoHookInFlight
    /\ hooks < MaxHooks
    /\ hooks' = hooks + 1
    /\ lastHook' = "end"
    /\ IF ~Truthy(thisOptions, "noStart")
       THEN IF client = 0
            THEN \* null.close(): TypeError
                 /\ lastEnd' = [outcome |-> "threw", closeCalls |-> 0, target |-> 0]
                 /\ UNCHANGED emulators
            ELSE \* this.client.close()
                 /\ emulators' = [emulators EXCEPT
                                     ![client].state = "closed",
                                     ![client].closeCalls = @ + 1]
                 /\ lastEnd' = [outcome |-> "returned", closeCalls |-> 1,
                                target |-> client]
       ELSE /\ lastEnd' = [outcome |-> "returned", closeCalls |-> 0, target |-> 0]
            /\ UNCHANGED emulators
    /\ UNCHANGED <<thisOptions, service0, service, client, pc, start, calls, promise,
                   firstRejected, returned>>

\* ------------------------------------------------------- buckets(), alone
\* a direct call of the public method buckets()
BucketsCall ==
    /\ returned' = [called |-> TRUE, threw |-> buckets(service).threw,
                    value |-> buckets(service).value]
    /\ service' = buckets(service).service
    /\ UNCHANGED <<thisOptions, service0, client, emulators, pc, start, calls, promise,
                   firstRejected, lastEnd, hooks, lastHook>>

Next ==
    \/ StartHandler
    \/ RunCallback
    \/ CreateBuckets
    \/ \E i \in 1..Len(calls),
          status \in {"resolved", "rejected"} : CreateBucketSettle(i, status)
    \/ EndHandler

\* ------------------------------------------------------------ input space
\* sequences over S of length at most n
RECURSIVE SeqsUpTo(_, _)
SeqsUpTo(S, n) ==
    IF n = 0 THEN {<<>>}
    ELSE SeqsUpTo(S, n - 1) \cup
         {Append(q, x) : q \in {r \in SeqsUpTo(S, n - 1) : Len(r) = n - 1}, x \in S}

\* ordered mappings with at most n entries, keys from K, values from V
Mappings(K, V, n) ==
    {m \in SeqsUpTo([key : K, val : V], n) :
        \A i, j \in 1..Len(m) : i # j => m[i].key # m[j].key}

\* objects made of one choice from each of three sets of partial objects
Objects(A, B, C) == {ObjectAssign(ObjectAssign(a, b), c) : a \in A, b \in B, c \in C}

Bucket(n) == [Type |-> BucketType, Properties |-> [BucketName |-> n]]
UnnamedBucket == [Type |-> BucketType]
Queue == [Type |-> "AWS::SQS::Queue", Properties |-> [BucketName |-> "q"]]

NoStartPart == {EmptyObject, [noStart |-> FALSE], [noStart |-> TRUE]}

Service(custom, plugins, resources) ==
    ObjectAssign(ObjectAssign(custom, plugins), resources)

\* port and host settings: a part for the run options, one for custom.s3
NetworkParts ==
    {<<EmptyObject, EmptyObject>>,
     <<[port |-> 5000], EmptyObject>>,
     <<EmptyObject, [port |-> 6000]>>,
     <<[port |-> 5000], [port |-> 6000]>>,
     <<EmptyObject, [port |-> 0]>>,
     <<EmptyObject, [host |-> "0.0.0.0"]>>}

\* bucket settings: the template's resource mapping (or none) and the
\* explicit buckets of the run options (or none)
BucketParts ==
    {<<EmptyObject, e>> :
        e \in {EmptyObject} \cup {[buckets |-> b] : b \in SeqsUpTo({"x"}, MaxBuckets)}}
    \cup
    {<<[resources |-> [Resources |-> <<[key |-> "R1", val |-> Bucket("a")]>>]], e>> :
        e \in {EmptyObject, [buckets |-> <<"x">>]}}

\* start/stop orchestration: every combination of noStart in the run
\* options and in custom.s3, with port, host and bucket settings
InitLifecycle ==
    \E net \in NetworkParts, bkt \in BucketParts :
        /\ thisOptions \in Objects(NoStartPart, {net[1]}, {bkt[2]})
        /\ service \in
              {Service(c, EmptyObject, bkt[1]) :
                  c \in {[custom |-> [s3 |-> ObjectAssign(n, net[2])]] : n \in NoStartPart}
                        \cup (IF net[2] = EmptyObject
                              THEN {EmptyObject, [custom |-> EmptyObject]}
                              ELSE {})}

\* ordered mappings of at most n entries with the keys R1, R2, ... in order
ResourceKey(i) == <<"R1", "R2", "R3", "R4", "R5">>[i]

InOrderMappings(V, n) ==
    {[i \in 1..Len(q) |-> [key |-> ResourceKey(i), val |-> q[i]]] : q \in SeqsUpTo(V, n)}

\* bucket resolution over the primary template
InitResources ==
    /\ thisOptions = [noStart |-> TRUE, buckets |-> <<"a", "x">>]
    /\ service \in
          {Service(EmptyObject, EmptyObject, r) :
              r \in {[resources |-> EmptyObject]} \cup
                    {[resources |-> [Resources |-> m]] :
                        m \in InOrderMappings({Bucket("a"), Bucket("b"), Bucket(""),
                                               Bucket(IntrinsicName),
                                               UnnamedBucket, Queue, Null},
                                              MaxResources)}}

\* a secondary stack: null, without Resources, or with at most one resource
Stacks ==
    {Null, EmptyObject, [Resources |-> <<>>]} \cup
    {[Resources |-> <<[key |-> "R1", val |-> v]>>] :
        v \in {Bucket("a"), Bucket("c"), Queue, Null}} \cup
    {[Resources |-> <<[key |-> "R4", val |-> Bucket("c")]>>]}

\* bucket resolution with the secondary-stacks extension
InitStacks ==
    /\ thisOptions \in {[noStart |-> TRUE], [noStart |-> TRUE, buckets |-> <<"x">>]}
    /\ service \in
          {Service(c, [plugins |-> <<"serverless-offline", AdditionalStacksPlugin>>], r) :
              c \in {EmptyObject, [custom |-> EmptyObject]} \cup
                    {[custom |-> [additionalStacks |-> m]] :
                        m \in SeqsUpTo([key : {"stack"}, val : Stacks], MaxStacks)},
              r \in {EmptyObject} \cup
                    {[resources |-> [Resources |-> m]] :
                        m \in Mappings({"R1", "R2"}, {Bucket("b"), Queue}, 2)}}
          \cup
          {Service([custom |-> [additionalStacks |->
                       <<[key |-> "stack",
                          val |-> [Resources |-> <<[key |-> "R1", val |-> Bucket("c")]>>]]>>]],
                   p,
                   [resources |-> [Resources |-> <<[key |-> "R1", val |-> Bucket("b")]>>]]) :
              p \in {EmptyObject, [plugins |-> <<"serverless-offline">>]}}

\* configuration merge: every key in the run options and in custom.s3
InitMerge ==
    /\ thisOptions \in
          {ObjectAssign(a, b) :
              a \in Objects(NoStartPart,
                            {EmptyObject, [port |-> 5000]},
                            {EmptyObject, [buckets |-> <<"x">>]}),
              b \in Objects({EmptyObject},
                            {EmptyObject, [directory |-> "./cli"]},
                            {EmptyObject, [cors |-> TRUE]})}
    /\ service \in
          {[custom |-> [s3 |-> ObjectAssign(a, b)]] :
              a \in Objects(NoStartPart,
                            {EmptyObject, [port |-> 6000]},
                            {EmptyObject, [buckets |-> <<"y">>]}),
              b \in Objects({EmptyObject},
                            {EmptyObject, [directory |-> "./yml"]},
                            {EmptyObject, [cors |-> FALSE]})}

Idle ==
    /\ service0 = service
    /\ client = 0
    /\ emulators = <<>>
    /\ pc = "idle"
    /\ start = NoStart
    /\ calls = <<>>
    /\ promise = [state |-> "none", err |-> NoError]
    /\ firstRejected = 0
    /\ lastEnd = NoEnd
    /\ hooks = 0
    /\ lastHook = "none"
    /\ returned = NotCalled

\* the plugin's lifecycle under the host framework's hooks
Init == InitLifecycle /\ Idle

Spec == Init /\ [][Next]_vars

\* configuration and bucket resolution over the full input space
InitConfig == (InitResources \/ InitStacks \/ InitMerge) /\ Idle

NextConfig == StartHandler \/ BucketsCall

SpecConfig == InitConfig /\ [][NextConfig]_vars

\* the lifecycle under the assumptions that the emulator calls the run
\* callback and that every create-bucket call issued settles
SpecFair ==
    /\ Init
    /\ [][Next]_vars
    /\ WF_vars(RunCallback)
    /\ WF_vars(CreateBuckets)
    /\ WF_vars(\E i \in 1..Len(calls), status \in {"resolved", "rejected"} :
                  CreateBucketSettle(i, status))

\* ================================================================ claims
\* a startHandler has been invoked, and it is the latest hook
StartInvoked == promise.state # "none"

\* C1: whenever create-bucket calls have been issued (or are about to be)
\* by a start whose merged noStart flag is false, the run callback of the
\* emulator that start constructed has reported success with a bound port;
\* in the noStart path the calls are issued with no emulator constructed.
C1_CreateOnlyAfterRun ==
    (StartInvoked /\ (calls # <<>> \/ pc = "createBuckets")) =>
        IF start.noStart
        THEN start.emu = 0 /\ start.s3Port = 0 /\ emulators = <<>>
        ELSE /\ start.emu \in 1..Len(emulators)
             /\ start.runErr = NoError
             /\ start.s3Port # 0
             /\ emulators[start.emu].boundPort = start.s3Port

C1_Witness ==
    /\ ~start.noStart
    /\ calls # <<>>
    /\ start.s3Port # start.port
    /\ emulators[start.emu].state = "running"

\* C2: once the run callback has reported an error, the start promise is
\* rejected with that same error and no create-bucket call is issued,
\* whatever the bucket list.
C2_RunErrorRejects ==
    start.runErr # NoError =>
        /\ promise = Rejected(start.runErr)
        /\ calls = <<>>
        /\ pc = "settled"

C2_Witness ==
    /\ start.runErr = RunError("EACCES")
    /\ Len(start.buckets) >= 2
    /\ promise.state = "rejected"

C4_StopAfterNoStartIsNoOp ==
    (lastHook = "end" /\ StartInvoked /\ start.noStart) =>
        /\ lastEnd.outcome = "returned"
        /\ lastEnd.closeCalls = 0

\* C5 (as claimed): an endHandler that follows a start which constructed an
\* emulator issues exactly one close call, on that emulator.
C5_StopClosesStartedEmulator ==
    (lastHook = "end" /\ StartInvoked /\ start.emu # 0) =>
        /\ lastEnd.closeCalls = 1
        /\ lastEnd.target = start.emu

\* C6: the start promise is resolved only when every issued create-bucket
\* call has resolved, and is resolved as soon as all have; once a call has
\* rejected the promise is rejected with the error of the call that rejected
\* first; with an empty bucket list it resolves with no call issued.
C6_JoinOfCreateCalls ==
    /\ promise.state = "resolved" =>
          /\ Len(calls) = Len(start.buckets)
          /\ \A i \in 1..Len(calls) : calls[i].status = "resolved"
    /\ (calls # <<>> /\ \A i \in 1..Len(calls) : calls[i].status = "resolved") =>
          promise = Resolved
    /\ (\E i \in 1..Len(calls) : calls[i].status = "rejected") =>
          /\ firstRejected \in 1..Len(calls)
          /\ promise = Rejected(CreateError(firstRejected))
    /\ (calls # <<>> /\ promise.state = "pending") =>
          \E i \in 1..Len(calls) : calls[i].status = "pending"
    /\ (StartInvoked /\ start.buckets = <<>> /\ pc = "settled"
          /\ start.runErr = NoError /\ ~start.bucketsThrew
          /\ promise # Rejected(FsError)) =>
          promise = Resolved /\ calls = <<>>

C6_Witness ==
    /\ Len(calls) = 2
    /\ calls[1].status = "rejected"
    /\ calls[2].status = "rejected"
    /\ firstRejected = 2
    /\ promise = Rejected(CreateError(2))

\* C7 (as claimed): for every key present both in the explicit run options
\* and in custom.s3, the merged options of a start hold the value of the
\* explicit run options.
C7_ExplicitOptionsWin ==
    StartInvoked =>
        \A k \in (DOMAIN thisOptions) \cap (DOMAIN ConfigOf(service0)) :
            start.options[k] = thisOptions[k]

\* C8: the bucket list of a start is the names of the named bucket-type
\* entries of the resource mapping, in mapping order, followed by the
\* explicit buckets of the run configuration in their order; nothing is
\* deduplicated.
NamedBucketNames(m) ==
    LET named == SelectSeq(m, LAMBDA p :
                     /\ "Type" \in DOMAIN p.val
                     /\ p.val.Type = "AWS::S3::Bucket"
                     /\ "Properties" \in DOMAIN p.val
                     /\ "BucketName" \in DOMAIN p.val.Properties
                     /\ p.val.Properties.BucketName # "")
    IN [i \in 1..Len(named) |-> named[i].val.Properties.BucketName]

C8_BucketListOrder ==
    (StartInvoked /\ ~start.bucketsThrew) =>
        start.buckets =
            NamedBucketNames(MergedResources(service).resources)
            \o (IF "buckets" \in DOMAIN start.options
                THEN start.options.buckets ELSE <<>>)

C8_Witness ==
    /\ StartInvoked
    /\ start.buckets = <<"b", "a", "a", "x">>
    /\ Len(ResourcesOf(service)) = 3

\* the secondary stacks of the supplied configuration, when the
\* secondary-stacks extension is listed
Stacks0 ==
    IF /\ "plugins" \in DOMAIN service0
       /\ \E i \in 1..Len(service0.plugins) :
              service0.plugins[i] = "serverless-plugin-additional-stacks"
       /\ "custom" \in DOMAIN service0
       /\ "additionalStacks" \in DOMAIN service0.custom
    THEN [i \in 1..Len(service0.custom.additionalStacks) |->
             service0.custom.additionalStacks[i].val]
    ELSE <<>>

\* the primary template's resource mapping as supplied
Primary0 ==
    IF "resources" \in DOMAIN service0 /\ "Resources" \in DOMAIN service0.resources
    THEN service0.resources.Resources
    ELSE <<>>

\* secondary stack i declares a bucket-type resource under key k
Declares(i, k) ==
    /\ Stacks0[i] # Null
    /\ "Resources" \in DOMAIN Stacks0[i]
    /\ \E j \in 1..Len(Stacks0[i].Resources) :
          /\ Stacks0[i].Resources[j].key = k
          /\ "Type" \in DOMAIN Stacks0[i].Resources[j].val
          /\ Stacks0[i].Resources[j].val.Type = "AWS::S3::Bucket"

Declaring(k) == {i \in 1..Len(Stacks0) : Declares(i, k)}

LastDeclaring(k) == CHOOSE i \in Declaring(k) : \A j \in Declaring(k) : j <= i

AllKeys ==
    {Primary0[i].key : i \in 1..Len(Primary0)} \cup
    UNION {{Stacks0[i].Resources[j].key : j \in 1..Len(Stacks0[i].Resources)} :
              i \in {n \in 1..Len(Stacks0) :
                        Stacks0[n] # Null /\ "Resources" \in DOMAIN Stacks0[n]}}

\* the entry that stands for key k after the merge
EffectiveEntry(k) ==
    IF Declaring(k) # {}
    THEN Lookup(Stacks0[LastDeclaring(k)].Resources, k)
    ELSE Lookup(Primary0, k)

EffectiveKeys ==
    {k \in AllKeys : Declaring(k) # {} \/ HasKey(Primary0, k)}

LiteralName(e) ==
    IF /\ "Type" \in DOMAIN e
       /\ e.Type = "AWS::S3::Bucket"
       /\ "Properties" \in DOMAIN e
       /\ "BucketName" \in DOMAIN e.Properties
       /\ e.Properties.BucketName # IntrinsicName
    THEN e.Properties.BucketName
    ELSE ""

Count(n, q) == Cardinality({i \in 1..Len(q) : q[i] = n})

Returned == returned.called /\ ~returned.threw

\* C9 (as claimed): for every bucket-type entry of the supplied resource
\* mapping with literal name N, the list buckets() returns holds N exactly
\* once.
C9_ExactlyOnce ==
    Returned =>
        \A i \in 1..Len(Primary0) :
            LiteralName(Primary0[i].val) # "" =>
                Count(LiteralName(Primary0[i].val), returned.value) = 1

\* C9 (amended): the list buckets() returns holds each literal name N once
\* per bucket-type entry literally named N in the resource mapping after the
\* secondary stacks are merged in; non-bucket entries contribute nothing.
C9_OncePerNamedEntry ==
    Returned =>
        \A n \in {returned.value[i] : i \in 1..Len(returned.value)}
                 \cup {LiteralName(EffectiveEntry(k)) : k \in EffectiveKeys} :
            n # "" /\ n # IntrinsicName =>
                Count(n, returned.value) =
                    Cardinality({k \in EffectiveKeys : LiteralName(EffectiveEntry(k)) = n})

C9_Witness ==
    /\ Returned
    /\ Len(Primary0) = 3
    /\ Primary0[1].val = Queue
    /\ Primary0[2].val = Bucket("a")
    /\ Primary0[3].val = Queue
    /\ returned.value = <<"a">>

\* C10: with the secondary-stacks extension, a key of the primary template
\* that a secondary stack declares as a bucket-type resource stands in the
\* merged mapping exactly once, at its place, with the entry of the last
\* secondary stack declaring it, and the returned list is read off that
\* mapping: the secondary stack's name for the key, not the primary's.
C10_SecondaryStackWins ==
    Returned =>
        \A k \in {Primary0[i].key : i \in 1..Len(Primary0)} :
            Declaring(k) # {} =>
                /\ ResourcesAliased(service)
                /\ Len(service.resources.Resources) >= Len(Primary0)
                /\ \A j \in 1..Len(Primary0) :
                      Primary0[j].key = k =>
                          /\ service.resources.Resources[j].key = k
                          /\ service.resources.Resources[j].val = EffectiveEntry(k)
                /\ Cardinality({j \in 1..Len(service.resources.Resources) :
                                   service.resources.Resources[j].key = k}) = 1
                /\ returned.value = NamedBucketNames(service.resources.Resources)

C10_Witness ==
    /\ Returned
    /\ Primary0 = <<[key |-> "R1", val |-> Bucket("b")]>>
    /\ Len(Stacks0) = 2
    /\ Declares(1, "R1") /\ Declares(2, "R1")
    /\ LiteralName(Stacks0[1].Resources[1].val) = "a"
    /\ returned.value = <<"c">>

\* C11: every element buckets() returns is the non-empty literal (string)
\* name of a bucket-type entry of the merged mapping, never a placeholder or
\* any other value, and without bucket-type entries and explicit buckets the
\* bucket list of start is empty.
C11_OnlyLiteralNames ==
    /\ Returned =>
          \A i \in 1..Len(returned.value) :
              /\ returned.value[i] # ""
              /\ returned.value[i] # IntrinsicName
              /\ \E k \in EffectiveKeys :
                    LiteralName(EffectiveEntry(k)) = returned.value[i]
    /\ (/\ StartInvoked
        /\ ~start.bucketsThrew
        /\ ExplicitBuckets(start.options) = <<>>
        /\ \A k \in EffectiveKeys : ~IsBucketEntry(EffectiveEntry(k)))
       => start.buckets = <<>>

\* C12: buckets() has no error outcome: a call of it returns a list for
\* every service configuration, and start never rejects because the
\* resolution threw.
C12_NoErrorOutcome ==
    /\ returned.called => ~returned.threw
    /\ StartInvoked => ~start.bucketsThrew

Started(i) == emulators[i].boundPort # 0

Alive(i) == emulators[i].state = "running"

\* C13: whenever no hook is in flight, this.client is non-null exactly if
\* some start brought an emulator up; it is null before any start, after a
\* start with noStart and after a start whose emulator failed to start.
C13_HandleIffStarted ==
    NoHookInFlight =>
        ((client # 0) <=> \E i \in 1..Len(emulators) : Started(i))

\* C14: after any sequence of hook invocations at most one emulator started
\* by this process is alive, and an alive emulator is the one this.client
\* refers to.
C14_AtMostOneAlive ==
    NoHookInFlight =>
        /\ Cardinality({i \in 1..Len(emulators) : Alive(i)}) <= 1
        /\ \A i \in 1..Len(emulators) : Alive(i) => client = i

\* C15: every createBucket call goes to the hostname of the start (the
\* configured host, localhost by default) and to the configured port in the
\* noStart path, the port reported by the run callback otherwise.
C15_EndpointOfEmulator ==
    \A i \in 1..Len(calls) :
        calls[i].endpoint =
            [hostname |-> start.hostname,
             port |-> IF start.noStart THEN start.port ELSE start.s3Port]

\* C16: after stop this.client is null, and no emulator is asked to close
\* more than once.
C16_StopClearsHandle ==
    /\ lastHook = "end" => client = 0
    /\ \A i \in 1..Len(emulators) : emulators[i].closeCalls <= 1

\* C17: endHandler never throws, whatever ran before it.
C17_StopNeverThrows == lastEnd.outcome # "threw"

\* C18: a start that fails on the storage directory rejects with that error
\* in the step of the failure, leaving this.client and the emulators as they
\* were, and issues no run call and no createBucket call afterwards.
C18_DirectoryFailureAborts ==
    /\ [](promise = Rejected(FsError) =>
             /\ pc = "settled"
             /\ start.emu = 0
             /\ calls = <<>>)
    /\ [][(hooks' # hooks /\ lastHook' = "start" /\ promise' = Rejected(FsError)) =>
             /\ client' = client
             /\ emulators' = emulators]_vars

C18_Witness ==
    /\ promise = Rejected(FsError)
    /\ client # 0
    /\ Alive(client)
    /\ calls = <<>>

\* C19: buckets() and start leave the supplied service configuration as it
\* was, and a second resolution on the same configuration returns the list
\* the first one returned.
C19_ConfigUnchanged ==
    /\ [](service = service0)
    /\ [][(Returned /\ returned'.called /\ ~returned'.threw) =>
             returned'.value = returned.value]_vars
    /\ []((Returned /\ StartInvoked /\ ~start.bucketsThrew) =>
             start.buckets = returned.value \o ExplicitBuckets(start.options))

\* the lifecycle state of the specification's state machine
Life ==
    IF promise.state = "pending" THEN "Starting"
    ELSE IF lastHook = "start" /\ promise.state = "resolved" THEN "Running"
    ELSE IF lastHook = "start" /\ promise.state = "rejected" THEN "Failed"
    ELSE "Idle"

\* Idle -> Starting -> {Running | Failed} and Running -> Stopping -> Idle;
\* endHandler is synchronous, so Stopping is passed within its step, and so
\* is Starting when the executor throws
LifeTransitions ==
    {<<"Idle", "Starting">>, <<"Starting", "Running">>, <<"Starting", "Failed">>,
     <<"Running", "Idle">>, <<"Idle", "Failed">>}

LifeTransitionsOfHandlers ==
    LifeTransitions \cup
    {<<"Failed", "Starting">>, <<"Failed", "Idle">>,
     <<"Running", "Starting">>, <<"Running", "Failed">>}

====
